---- MODULE Spec2Model ----
(***************************************************************************)
(* Model of the IO line editor of src/src/io.js.                           *)
(*                                                                         *)
(* A JavaScript string is a sequence of one-character strings, so that     *)
(* "ab" is <<"a", "b">> and '' is <<>>.  The instance fields of IO are the *)
(* variables; every method is an operator over a record of those fields    *)
(* (the record `io` stands for `this`), computed in the order the code     *)
(* executes.  An exception is carried in the field `thrown`: once set,     *)
(* every later statement of the handler is skipped.                        *)
(***************************************************************************)
EXTENDS Integers, Sequences, FiniteSets, TLC

\* ---------------------------------------------------------------- bounds
MaxBuf == 2      \* longest buffer the environment types or accepts
MaxHist == 2     \* longest history the environment builds
MaxChunk == 2    \* most key events in one chunk of input

\* ------------------------------------------------------------- alphabet
Chars == {"a", "b"}
Breaks == {"\n", "\r"}

VARIABLES
  buffer,          \* this.buffer
  cursor,          \* this.cursor
  suffix,          \* this.suffix
  completionList,  \* this.completionList
  paused,          \* this._paused
  history,         \* this.history
  historyIndex,    \* this.history.index
  closeOnThisOne,  \* closeOnThisOne of the constructor
  hasAutocomplete, \* this.onAutocomplete was supplied
  listening,       \* stdin.once('data', handle) is registered
  remaining,       \* handle: data.length - i, key events of the chunk still to come
  pc,              \* where the key callback stands: idle, onLine, rejected
  lines,           \* key callback: const lines
  i,               \* key callback: loop index i
  status,          \* the process: running, exit0, exit1
  cur,             \* the key of the key event dispatched last
  calls,           \* lines handed to onLine while handling cur
  returned,        \* how many of those calls have returned
  renders,         \* refresh writes of the last step
  lookups,         \* onAutocomplete calls of the last step
  dropped          \* a chunk was emitted as 'data' to no listener while
                   \* the outstanding onLine call ran

vars == <<buffer, cursor, suffix, completionList, paused, history, historyIndex,
          closeOnThisOne, hasAutocomplete, listening, remaining, pc,
          lines, i, status, cur, calls, returned, renders, lookups, dropped>>

\* ------------------------------------------------------------ strings
\* String.prototype.slice(from, to) with 0 <= from <= to <= length
slice(str, from, to) == SubSeq(str, from + 1, to)

\* s.split(/\r\n|\n|\r/): the segments between line terminators, where
\* "\r\n" is one terminator
RECURSIVE splitFrom(_, _, _)
splitFrom(str, k, seg) ==
  IF k > Len(str) THEN <<seg>>
  ELSE IF str[k] = "\r" /\ k < Len(str) /\ str[k + 1] = "\n"
       THEN <<seg>> \o splitFrom(str, k + 2, <<>>)
  ELSE IF str[k] \in Breaks
       THEN <<seg>> \o splitFrom(str, k + 1, <<>>)
  ELSE splitFrom(str, k + 1, Append(seg, str[k]))

split(str) == splitFrom(str, 1, <<>>)

\* --------------------------------------------------------- key events
SpecialNames == {"up", "down", "left", "right", "delete", "backspace", "tab"}
CtrlNames == {"c", "d", "z"}
\* The text s of a key event: nothing, one typed character, a line
\* terminator of each kind, and pastes with terminators before, between
\* and after their characters.
Payloads ==
  {<<>>} \cup {<<c>> : c \in Chars} \cup {<<"a", "b">>}
  \cup {<<"\n">>, <<"\r">>, <<"\r", "\n">>, <<"\n", "\n">>, <<"\n", "\r">>}
  \cup {<<"a", "\n">>, <<"\n", "b">>, <<"a", "\n", "b">>, <<"b", "\r", "\n", "a">>,
        <<"a", "\n", "\n", "b">>, <<"a", "\n", "b", "\r">>}

\* The lines the environment submits.
Lines == {<<c>> : c \in Chars}

\* The key events the decoder hands to the callback as (s, key): s is read
\* in the default case only.
Keys ==
  [name : SpecialNames, ctrl : {FALSE}, meta : {FALSE}]
  \cup {k \in [name : CtrlNames, ctrl : BOOLEAN, meta : BOOLEAN] : k.ctrl # k.meta}
  \cup [name : {"undefined"}, ctrl : {FALSE}, meta : {FALSE}]

TextOf(key) == IF key.name = "undefined" THEN Payloads ELSE {<<>>}

NoKey == [name |-> "none", ctrl |-> FALSE, meta |-> FALSE]

KeyKind(key) ==
  IF (key.ctrl \/ key.meta) /\ key.name = "c" THEN "c"
  ELSE IF (key.ctrl \/ key.meta) /\ key.name \in {"d", "z"} THEN "dz"
  ELSE IF key.name = "none" THEN "none"
  ELSE "other"

\* ------------------------------------------------ completion lookup
Undefined == [present |-> FALSE, items |-> <<>>]
List(l) == [present |-> TRUE, items |-> l]

Abc == <<"a", "b", "c">>
Abd == <<"a", "b", "d">>

\* What the environment's lookup may answer: nothing, an empty list, one
\* candidate.
LookupResults == {Undefined, List(<<>>), List(<< <<"c">> >>)}

\* Which external callback throws in a step, if any.
Faults == {"none", "transformBuffer", "onAutocomplete"}

\* What the external callbacks do in one step: the answer r of the lookup
\* and the callback f that throws; a lookup that throws has no answer.
Oracles ==
  {o \in LookupResults \X Faults : o[2] = "onAutocomplete" => o[1] = Undefined}

\* The lookup of the environment: ["abc", "abd"] for "ab", and the answer r
\* for any other buffer.
onAutocomplete(buf, r) ==
  IF buf = <<"a", "b">> THEN List(<<Abc, Abd>>) ELSE r

\* ------------------------------------------------------ methods of IO
\* `io` is `this` together with the locals of the running key callback.
RECURSIVE refresh(_, _, _, _), autocomplete(_, _, _)

pause(io) == [io EXCEPT !.paused = TRUE]

unpause(io) == [io EXCEPT !.paused = FALSE]

\* addSuffix without the test of the cursor
addSuffixAnywhere(io, s) ==
  IF io.paused THEN io
  ELSE [io EXCEPT !.suffix = s]

addSuffix(io, s) ==
  IF io.paused \/ io.cursor # Len(io.buffer) THEN io
  ELSE [io EXCEPT !.suffix = s]

\* autocomplete taking the last candidate (pop) for the first (shift)
autocompletePop(io, r, f) ==
  IF io.thrown THEN io
  ELSE IF ~hasAutocomplete THEN io
  ELSE IF io.completionList.present /\ Len(io.completionList.items) > 0
       THEN LET items == io.completionList.items
                next == items[Len(items)]
            IN addSuffix([io EXCEPT !.completionList.items =
                                      SubSeq(items, 1, Len(items) - 1)], next)
  ELSE IF io.completionList.present
       THEN refresh([io EXCEPT !.completionList = Undefined], FALSE, r, f)
  ELSE LET asked == [io EXCEPT !.lookups = @ + 1]
       IN IF f = "onAutocomplete" THEN [asked EXCEPT !.thrown = TRUE]
          ELSE LET c == onAutocomplete(io.buffer, r)
               IN IF c.present
                  THEN autocomplete([asked EXCEPT !.completionList = c], r, f)
                  ELSE asked

autocomplete(io, r, f) ==
  IF io.thrown THEN io
  ELSE IF ~hasAutocomplete THEN io
  ELSE IF io.completionList.present /\ Len(io.completionList.items) > 0
       THEN LET next == Head(io.completionList.items)
            IN addSuffix([io EXCEPT !.completionList.items = Tail(@)], next)
  ELSE IF io.completionList.present
       THEN refresh([io EXCEPT !.completionList = Undefined], FALSE, r, f)
  ELSE LET asked == [io EXCEPT !.lookups = @ + 1]
       IN IF f = "onAutocomplete" THEN [asked EXCEPT !.thrown = TRUE]
          ELSE LET c == onAutocomplete(io.buffer, r)
               IN IF c.present
                  THEN autocomplete([asked EXCEPT !.completionList = c], r, f)
                  ELSE asked

\* refresh without the test of the buffer before its autocomplete
refreshCompletesWhenEmpty(io, complete, r, f) ==
  IF io.thrown THEN io
  ELSE IF io.paused THEN io
  ELSE LET cleared == [io EXCEPT !.completionList = Undefined, !.suffix = <<>>]
       IN IF f = "transformBuffer"
          THEN [cleared EXCEPT !.thrown = TRUE]
          ELSE LET written == [cleared EXCEPT !.renders = @ + 1]
               IN IF complete THEN autocomplete(written, r, f) ELSE written

\* refresh without this.suffix = ''
refreshKeepsSuffix(io, complete, r, f) ==
  IF io.thrown THEN io
  ELSE IF io.paused THEN io
  ELSE LET cleared == [io EXCEPT !.completionList = Undefined]
       IN IF f = "transformBuffer"
          THEN [cleared EXCEPT !.thrown = TRUE]
          ELSE LET written == [cleared EXCEPT !.renders = @ + 1]
               IN IF complete /\ written.buffer # <<>>
                  THEN autocomplete(written, r, f)
                  ELSE written

refresh(io, complete, r, f) ==
  IF io.thrown THEN io
  ELSE IF io.paused THEN io
  ELSE LET cleared == [io EXCEPT !.completionList = Undefined, !.suffix = <<>>]
       IN IF f = "transformBuffer"
          THEN [cleared EXCEPT !.thrown = TRUE]
          ELSE LET written == [cleared EXCEPT !.renders = @ + 1]
               IN IF complete /\ written.buffer # <<>>
                  THEN autocomplete(written, r, f)
                  ELSE written

\* appendToBuffer without the splice at the cursor: s always goes to the end
appendToBufferAtEnd(io, s, r, f) ==
  refresh([io EXCEPT !.buffer = @ \o s, !.cursor = @ + Len(s)], TRUE, r, f)

appendToBuffer(io, s, r, f) ==
  LET spliced ==
        IF io.cursor < Len(io.buffer)
        THEN LET beg == slice(io.buffer, 0, io.cursor)
                 end == slice(io.buffer, io.cursor, Len(io.buffer))
             IN beg \o s \o end
        ELSE io.buffer \o s
  IN refresh([io EXCEPT !.buffer = spliced, !.cursor = @ + Len(s)], TRUE, r, f)

\* moveCursor without its range test
moveCursorUnchecked(io, n, r, f) ==
  refresh([io EXCEPT !.cursor = @ + n], TRUE, r, f)

\* moveCursor rendering where it rejects a move
moveCursorClamped(io, n, r, f) ==
  IF (io.cursor + n < 0) \/ (io.cursor + n > Len(io.buffer))
  THEN refresh(io, TRUE, r, f)
  ELSE refresh([io EXCEPT !.cursor = @ + n], TRUE, r, f)

moveCursor(io, n, r, f) ==
  IF (io.cursor + n < 0) \/ (io.cursor + n > Len(io.buffer)) THEN io
  ELSE refresh([io EXCEPT !.cursor = @ + n], TRUE, r, f)

\* --------------------------------------------------- the key callback
\* lines 106-112 with history.unshift(b) taken for history.push(b)
submitPush(io) ==
  LET b == io.buffer
  IN [pause(io) EXCEPT !.buffer = <<>>,
                       !.cursor = 0,
                       !.history = @ \o <<b>>,
                       !.calls = Append(@, b),
                       !.pc = "onLine"]

\* lines 106-112: pause, capture the buffer as b, reset, history.unshift(b)
\* and call onLine(b), which suspends the callback
submit(io) ==
  LET b == io.buffer
  IN [pause(io) EXCEPT !.buffer = <<>>,
                       !.cursor = 0,
                       !.history = <<b>> \o @,
                       !.calls = Append(@, b),
                       !.pc = "onLine"]

RECURSIVE pasteLoop(_, _, _)

\* the loop without the test of the buffer at a line break: an empty
\* buffer is submitted as well
pasteLoopSubmitsEmpty(io, r, f) ==
  IF io.thrown THEN io
  ELSE IF ~(io.i < Len(io.lines)) THEN [io EXCEPT !.pc = "idle"]
  ELSE IF io.i > 0
       THEN LET shown == refresh(io, FALSE, r, f)
            IN IF shown.thrown THEN shown ELSE submit(shown)
  ELSE pasteLoop([appendToBuffer(io, io.lines[io.i + 1], r, f)
                    EXCEPT !.i = @ + 1], r, f)

\* the loop with onLine(b) called and not awaited
pasteLoopNoAwait(io, r, f) ==
  IF io.thrown THEN io
  ELSE IF ~(io.i < Len(io.lines)) THEN [io EXCEPT !.pc = "idle"]
  ELSE LET shown == IF io.i > 0 /\ io.buffer # <<>>
                    THEN refresh(unpause([submit(refresh(io, FALSE, r, f))
                                            EXCEPT !.pc = "idle"]), TRUE, r, f)
                    ELSE IF io.i > 0 THEN refresh(io, TRUE, r, f) ELSE io
           added == appendToBuffer(shown, io.lines[io.i + 1], r, f)
       IN IF shown.thrown THEN shown
          ELSE pasteLoop([added EXCEPT !.i = @ + 1], r, f)

\* The loop over lines of the default case, from the test of iteration io.i
\* up to the next call of onLine, the end of the loop, or an exception.
pasteLoop(io, r, f) ==
  IF io.thrown THEN io
  ELSE IF ~(io.i < Len(io.lines)) THEN [io EXCEPT !.pc = "idle"]
  ELSE IF io.i > 0 /\ io.buffer # <<>>
       THEN LET shown == refresh(io, FALSE, r, f)
            IN IF shown.thrown THEN shown ELSE submit(shown)
  ELSE LET shown == IF io.i > 0 THEN refresh(io, TRUE, r, f) ELSE io
           added == appendToBuffer(shown, io.lines[io.i + 1], r, f)
       IN IF shown.thrown THEN shown
          ELSE pasteLoop([added EXCEPT !.i = @ + 1], r, f)

\* the callback resumed without unpause()
afterOnLineStaysPaused(io, r, f) ==
  LET shown == refresh(io, TRUE, r, f)
      added == appendToBuffer(shown, io.lines[io.i + 1], r, f)
  IN IF shown.thrown THEN shown
     ELSE pasteLoop([added EXCEPT !.i = @ + 1], r, f)

\* The key callback resumed when onLine has returned: the write of its
\* result, unpause, refresh, appendToBuffer, and on with the loop.
afterOnLine(io, r, f) ==
  LET shown == refresh(unpause(io), TRUE, r, f)
      added == appendToBuffer(shown, io.lines[io.i + 1], r, f)
  IN IF shown.thrown THEN shown
     ELSE pasteLoop([added EXCEPT !.i = @ + 1], r, f)

\* the ctrl/meta "c" branch without the closeOnThisOne guard
caseCtrlCUnguarded(io) == [io EXCEPT !.value = -1]

\* if (key.name === 'c') of the ctrl/meta branch
caseCtrlC(io) ==
  IF io.closeOnThisOne THEN [io EXCEPT !.value = -1]
  ELSE [io EXCEPT !.buffer = <<>>, !.cursor = 0, !.closeOnThisOne = TRUE]

\* case 'up' leaving the cursor at the start of the loaded entry
caseUpCursorHome(io, r, f) ==
  IF io.index >= Len(io.history) - 1 THEN io
  ELSE LET e == io.history[io.index + 2]
       IN refresh([io EXCEPT !.index = @ + 1, !.buffer = e, !.cursor = 0],
                  TRUE, r, f)

caseUp(io, r, f) ==
  IF io.index >= Len(io.history) - 1 THEN io
  ELSE LET e == io.history[io.index + 2]
       IN refresh([io EXCEPT !.index = @ + 1, !.buffer = e, !.cursor = Len(e)],
                  TRUE, r, f)

\* case 'down' loading the entry it moves away from
caseDownStale(io, r, f) ==
  IF io.index <= 0
  THEN refresh([io EXCEPT !.buffer = <<>>, !.cursor = 0], TRUE, r, f)
  ELSE LET e == io.history[io.index + 1]
       IN refresh([io EXCEPT !.index = @ - 1, !.buffer = e, !.cursor = Len(e)],
                  TRUE, r, f)

caseDown(io, r, f) ==
  IF io.index <= 0
  THEN refresh([io EXCEPT !.buffer = <<>>, !.cursor = 0], TRUE, r, f)
  ELSE LET e == io.history[io.index]
       IN refresh([io EXCEPT !.index = @ - 1, !.buffer = e, !.cursor = Len(e)],
                  TRUE, r, f)

caseLeft(io, r, f) == moveCursor(io, -1, r, f)

\* case 'right' committing the suggestion without advancing the cursor
caseRightKeepsCursor(io, r, f) ==
  IF io.cursor = Len(io.buffer)
  THEN IF io.suffix # <<>>
       THEN refresh([io EXCEPT !.completionList = Undefined,
                               !.buffer = @ \o io.suffix], TRUE, r, f)
       ELSE io
  ELSE moveCursor(io, 1, r, f)

caseRight(io, r, f) ==
  IF io.cursor = Len(io.buffer)
  THEN IF io.suffix # <<>>
       THEN refresh([io EXCEPT !.completionList = Undefined,
                               !.buffer = @ \o io.suffix,
                               !.cursor = @ + Len(io.suffix)], TRUE, r, f)
       ELSE io
  ELSE moveCursor(io, 1, r, f)

caseBackspace(io, r, f) ==
  IF io.cursor = 0 THEN io
  ELSE moveCursor([io EXCEPT !.buffer = slice(@, 0, io.cursor - 1)
                                          \o slice(@, io.cursor, Len(@))],
                  -1, r, f)

\* case 'tab' committing the suggestion it finds shown
caseTabCommits(io, r, f) ==
  IF io.suffix # <<>>
  THEN [io EXCEPT !.buffer = @ \o io.suffix,
                  !.cursor = @ + Len(io.suffix),
                  !.suffix = <<>>]
  ELSE autocomplete(io, r, f)

caseTab(io, r, f) == autocomplete(io, r, f)

caseDefault(io, s, r, f) ==
  IF s # <<>>
  THEN pasteLoop([io EXCEPT !.index = -1, !.lines = split(s), !.i = 0], r, f)
  ELSE io

\* async (s, key) => ..., up to its first suspension at onLine
onKey(io, s, key, r, f) ==
  IF (key.ctrl \/ key.meta) /\ (key.name = "d" \/ key.name = "z")
  THEN [io EXCEPT !.value = -1]
  ELSE IF (key.ctrl \/ key.meta) /\ key.name = "c"
  THEN caseCtrlC(io)
  ELSE LET k == [io EXCEPT !.closeOnThisOne = FALSE]
       IN CASE key.name = "up" -> caseUp(k, r, f)
            [] key.name = "down" -> caseDown(k, r, f)
            [] key.name = "left" -> caseLeft(k, r, f)
            [] key.name = "right" -> caseRight(k, r, f)
            [] key.name \in {"delete", "backspace"} -> caseBackspace(k, r, f)
            [] key.name = "tab" -> caseTab(k, r, f)
            [] OTHER -> caseDefault(k, s, r, f)

\* ------------------------------------------------------------ actions
This ==
  [buffer |-> buffer, cursor |-> cursor, suffix |-> suffix,
   completionList |-> completionList, paused |-> paused,
   history |-> history, index |-> historyIndex,
   closeOnThisOne |-> closeOnThisOne,
   lines |-> lines, i |-> i, pc |-> pc, calls |-> calls,
   thrown |-> FALSE, value |-> 0, renders |-> 0, lookups |-> 0]

\* The fields after a run of the key callback; handle (lines 137-145) then
\* exits on -1, goes on with the chunk, or registers itself again.  A
\* rejection of the callback rejects handle, which nobody awaits.
Settle(io, left) ==
  /\ buffer' = io.buffer
  /\ cursor' = io.cursor
  /\ suffix' = io.suffix
  /\ completionList' = io.completionList
  /\ paused' = io.paused
  /\ history' = io.history
  /\ historyIndex' = io.index
  /\ closeOnThisOne' = io.closeOnThisOne
  /\ lines' = io.lines
  /\ i' = io.i
  /\ calls' = io.calls
  /\ renders' = io.renders
  /\ lookups' = io.lookups
  /\ pc' = IF io.thrown THEN "rejected" ELSE io.pc
  /\ status' = IF ~io.thrown /\ io.value = -1 THEN "exit0" ELSE status
  /\ remaining' = left
  /\ listening' = (~io.thrown /\ io.value # -1 /\ io.pc = "idle" /\ left = 0)
  /\ UNCHANGED hasAutocomplete

\* The environment sends only what keeps the model within its bounds.
WithinBounds(s, key) ==
  /\ key.name = "undefined" =>
       LET segs == split(s)
       IN /\ Len(buffer) + Len(segs[1]) <= MaxBuf
          /\ \A n \in 1..Len(segs) : Len(segs[n]) <= MaxBuf
          /\ Len(segs) > 1 =>
               /\ Len(buffer) + Len(segs[1]) > 0 =>
                    slice(buffer, 0, cursor) \o segs[1]
                      \o slice(buffer, cursor, Len(buffer)) \in Lines
               /\ \A n \in 2..(Len(segs) - 1) : segs[n] \in Lines \cup {<<>>}
               /\ Len(history) + Len(segs) - 1 <= MaxHist
  /\ key.name = "right" => Len(buffer) + Len(suffix) <= MaxBuf

\* decoder.next(data[i]): one key event goes to the callback.
Dispatch(s, key, left, r, f) ==
  /\ status = "running"
  /\ pc = "idle"
  /\ WithinBounds(s, key)
  /\ cur' = key
  /\ returned' = 0
  /\ dropped' = FALSE
  /\ Settle(onKey([This EXCEPT !.calls = <<>>, !.lines = <<>>, !.i = 0],
                  s, key, r, f), left)

\* A chunk of n key events arrives at the registered listener, which
\* dispatches its first key event.
Data(n, s, key, r, f) ==
  /\ listening
  /\ Dispatch(s, key, n - 1, r, f)

\* handle goes on to the next key event of its chunk.
NextKey(s, key, r, f) ==
  /\ ~listening
  /\ remaining > 0
  /\ Dispatch(s, key, remaining - 1, r, f)

\* onLine resolves and the callback runs on.
Return(r, f) ==
  /\ status = "running"
  /\ pc = "onLine"
  /\ returned' = returned + 1
  /\ dropped' = FALSE
  /\ UNCHANGED cur
  /\ Settle(afterOnLine([This EXCEPT !.pc = "idle"], r, f), remaining)

\* onLine rejects: the callback throws at line 112, before unpause.
Throw ==
  /\ status = "running"
  /\ pc = "onLine"
  /\ pc' = "rejected"
  /\ renders' = 0
  /\ lookups' = 0
  /\ UNCHANGED <<buffer, cursor, suffix, completionList, paused, history,
                 historyIndex, closeOnThisOne, hasAutocomplete,
                 listening, remaining, lines, i, status, cur, calls,
                 returned, dropped>>

\* A chunk of input arrives while the callback awaits onLine.  handle was
\* registered with once and registers itself again only when its loop is
\* done (line 144), and pause() corks the writable side of stdin, which
\* does not stop the stream from reading: the stream emits 'data' to no
\* listener and the chunk is gone.
DataUnheard ==
  /\ status = "running"
  /\ pc = "onLine"
  /\ ~listening
  /\ ~dropped
  /\ dropped' = TRUE
  /\ renders' = 0
  /\ lookups' = 0
  /\ UNCHANGED <<buffer, cursor, suffix, completionList, paused, history,
                 historyIndex, closeOnThisOne, hasAutocomplete,
                 listening, remaining, pc, lines, i, status, cur, calls,
                 returned>>

\* The promise of handle is rejected and unhandled: the runtime either only
\* warns (the process stays as it is) or ends the process with status 1.
unhandledRejection ==
  /\ status = "running"
  /\ pc = "rejected"
  /\ status' = "exit1"
  /\ UNCHANGED <<buffer, cursor, suffix, completionList, paused, history,
                 historyIndex, closeOnThisOne, hasAutocomplete,
                 listening, remaining, pc, lines, i, cur, calls,
                 returned, renders, lookups, dropped>>

Init ==
  /\ buffer = <<>>
  /\ cursor = 0
  /\ suffix = <<>>
  /\ completionList = Undefined
  /\ paused = FALSE
  /\ history = <<>>
  /\ historyIndex = -1
  /\ closeOnThisOne = FALSE
  /\ hasAutocomplete \in BOOLEAN
  /\ listening = TRUE
  /\ remaining = 0
  /\ pc = "idle"
  /\ lines = <<>>
  /\ i = 0
  /\ status = "running"
  /\ cur = NoKey
  /\ calls = <<>>
  /\ returned = 0
  /\ renders = 0
  /\ lookups = 0
  /\ dropped = FALSE

Next ==
  \/ \E n \in 1..MaxChunk, key \in Keys, o \in Oracles :
       \E s \in TextOf(key) : Data(n, s, key, o[1], o[2])
  \/ \E key \in Keys, o \in Oracles :
       \E s \in TextOf(key) : NextKey(s, key, o[1], o[2])
  \/ \E o \in Oracles : Return(o[1], o[2])
  \/ Throw
  \/ DataUnheard
  \/ unhandledRejection

Spec == Init /\ [][Next]_vars

\* ------------------------------------------------------------- claims
\* A step that dispatches a key event: the callback is not running and the
\* process lives.  cur is then the key dispatched before, cur' this one.
KeyStep(names) == pc = "idle" /\ status = "running" /\ cur'.name \in names

\* A step in which onLine resolves and the callback runs on.
ReturnStep == pc = "onLine" /\ returned' = returned + 1

\* C1: in every reachable state, whatever key events came before,
\* 0 <= cursor <= length(buffer).
C1_CursorInBuffer == 0 <= cursor /\ cursor <= Len(buffer)

\* "left" has walked the cursor from the end of a full buffer to its start.
C1_Witness == cur.name = "left" /\ cursor = 0 /\ Len(buffer) = MaxBuf

\* C2: "down" with historyIndex <= 0 leaves buffer empty, cursor 0 and
\* historyIndex = -1; "down" with historyIndex > 0 decrements historyIndex
\* and loads that entry with the cursor at its end.
C2_DownLeavesBrowsing ==
  [][KeyStep({"down"}) =>
       IF historyIndex <= 0
       THEN buffer' = <<>> /\ cursor' = 0 /\ historyIndex' = -1
       ELSE /\ historyIndex' = historyIndex - 1
            /\ buffer' = history[historyIndex' + 1]
            /\ cursor' = Len(buffer')]_vars

C4_TerminatesExactlyWhen ==
  [][(pc = "idle" /\ status = "running") =>
       (status' = "exit0" <=>
          \/ KeyKind(cur') = "dz"
          \/ KeyKind(cur') = "c" /\ KeyKind(cur) = "c")]_vars

\* A second ctrl/meta c in a row has ended the process.
C4_Witness == status = "exit0" /\ KeyKind(cur) = "c"

NonEmpty(seq) == SelectSeq(seq, LAMBDA x : x # <<>>)

\* The buffer with the text s spliced in at the cursor.
Spliced(s) == slice(buffer, 0, cursor) \o s \o slice(buffer, cursor, Len(buffer))

\* The segments handled when the callback is next suspended or done.
UpTo(n, p, segs) == IF p = "onLine" THEN n ELSE Len(segs) - 1

\* C5 as stated: a payload with N line breaks has produced exactly N
\* onLine calls when its key event is handled.
C5_ExactlyN ==
  (pc = "idle" /\ cur.name = "undefined" /\ lines # <<>>)
    => Len(calls) = Len(lines) - 1

\* C5 amended: a payload makes one onLine call for each line break reached
\* with a non-empty buffer and none for an empty one, in segment order, each
\* returned before the next is made, and no key event is dispatched while a
\* call is outstanding.
C5_Sequential ==
  /\ [](/\ Len(calls) - returned \in {0, 1}
        /\ pc = "onLine" => Len(calls) = returned + 1
        /\ pc = "idle" => Len(calls) = returned)
  /\ [][(KeyStep({"undefined"}) /\ pc' # "rejected" /\ lines' # <<>>) =>
          LET reached == <<Spliced(lines'[1])>> \o SubSeq(lines', 2, Len(lines') - 1)
          IN calls' = NonEmpty(SubSeq(reached, 1, UpTo(i', pc', lines')))]_vars
  /\ [][(pc = "onLine" /\ pc' # "rejected" /\ ~ReturnStep) =>
          UNCHANGED <<calls, returned, cur, lines, i, pc>>]_vars
  /\ [][(ReturnStep /\ pc' # "rejected") =>
          /\ calls' = calls \o NonEmpty(SubSeq(lines, i + 1, UpTo(i', pc', lines)))]_vars
  /\ [][(cur' # cur \/ lines' # lines \/ returned' < returned) =>
          (pc = "idle" /\ Len(calls) = returned)]_vars

\* Two calls were made for one payload and both have returned.
C5_Witness ==
  /\ pc = "idle"
  /\ Len(lines) = 3
  /\ Len(calls) = 2
  /\ returned = 2
  /\ calls = <<lines[1], lines[2]>>

\* C6: at a line break reached with a non-empty buffer the whole buffer is
\* the line, buffer and cursor are reset and the line is history[0] when
\* onLine is called with it; history only grows, at its front; the next
\* segment goes into the reset buffer when onLine has returned.  Pasting
\* "a\nb" into an empty buffer calls onLine once, with "a", and ends with
\* buffer "b", cursor 1.
C6_SubmitThenInsert ==
  /\ [](pc = "onLine" =>
          /\ buffer = <<>> /\ cursor = 0 /\ paused
          /\ calls # <<>> /\ history # <<>>
          /\ history[1] = calls[Len(calls)])
  /\ [][\/ history' = history
        \/ /\ pc' = "onLine"
           /\ history' = <<calls'[Len(calls')]>> \o history]_vars
  /\ [][(KeyStep({"undefined"}) /\ pc' = "onLine" /\ i' = 1) =>
          calls' = <<Spliced(lines'[1])>>]_vars
  /\ [][(pc = "onLine" /\ pc' = "idle") =>
          /\ buffer' = lines[Len(lines)]
          /\ cursor' = Len(buffer')
          /\ history' = history]_vars
  /\ [][(KeyStep({"undefined"}) /\ buffer = <<>> /\ pc' # "rejected"
           /\ lines' = << <<"a">>, <<"b">> >>) =>
          /\ pc' = "onLine"
          /\ calls' = << <<"a">> >>
          /\ history' = << <<"a">> >> \o history]_vars
  /\ [][(ReturnStep /\ pc' # "rejected" /\ lines = << <<"a">>, <<"b">> >>) =>
          /\ pc' = "idle"
          /\ calls' = calls
          /\ buffer' = <<"b">>
          /\ cursor' = 1]_vars

\* "a\nb" was pasted into an empty buffer with no history and is handled.
C6_Witness ==
  /\ pc = "idle"
  /\ lines = << <<"a">>, <<"b">> >>
  /\ calls = << <<"a">> >>
  /\ returned = 1
  /\ buffer = <<"b">>
  /\ cursor = 1
  /\ history = << <<"a">> >>

\* No suggestion is shown and no queue is held.
NoneActive(suf, cl) == suf = <<>> /\ ~cl.present

\* suf and cl are what a fresh autocomplete cycle leaves for buffer buf and
\* cursor at: the head of the lookup's answer shown (at the end of the
\* buffer only) and its tail queued.
FreshCycle(buf, at, suf, cl) ==
  \E r \in LookupResults :
    LET c == onAutocomplete(buf, r)
    IN /\ c.present /\ c.items # <<>>
       /\ cl = List(Tail(c.items))
       /\ suf = IF at = Len(buf) THEN Head(c.items) ELSE <<>>

\* A key event that is neither tab nor a "right" that accepts a suggestion.
OtherKeyStep ==
  /\ pc = "idle" /\ status = "running"
  /\ cur'.name # "tab"
  /\ ~(cur'.name = "right" /\ cursor = Len(buffer) /\ suffix # <<>>)

\* A key event whose handling calls no refresh.
Unrendered ==
  \/ KeyKind(cur') \in {"c", "dz"}
  \/ cur'.name = "left" /\ cursor = 0
  \/ cur'.name = "right" /\ cursor = Len(buffer) /\ suffix = <<>>
  \/ cur'.name \in {"delete", "backspace"} /\ cursor = 0
  \/ cur'.name = "up" /\ historyIndex >= Len(history) - 1
  \/ cur'.name = "undefined" /\ lines' = <<>>

AcceptStep ==
  /\ KeyStep({"right"})
  /\ cursor = Len(buffer)
  /\ suffix # <<>>
  /\ pc' # "rejected"

\* C8 as stated: "right" at the end of the buffer with suggestion g gives
\* buffer + g, cursor + length(g), and no suggestion is active afterwards.
C8_AcceptLeavesNone ==
  [][AcceptStep =>
       /\ buffer' = buffer \o suffix
       /\ cursor' = cursor + Len(suffix)
       /\ suffix' = <<>>]_vars

\* C8 amended: it gives buffer + g and cursor + length(g), and g is no
\* longer the suggestion: there is none, or the one the render's lookup for
\* the new buffer has just shown.
C8_AcceptCommits ==
  [][AcceptStep =>
       /\ buffer' = buffer \o suffix
       /\ cursor' = cursor + Len(suffix)
       /\ \/ NoneActive(suffix', completionList')
          \/ lookups' = 1
               /\ FreshCycle(buffer', cursor', suffix', completionList')]_vars

\* The candidate "c", which no key types, is in the buffer behind "a".
C8_Witness ==
  /\ cur.name = "right"
  /\ buffer = <<"a", "c">>
  /\ cursor = 2
  /\ renders = 1

\* A tab press the lookup and the transform survive.
TabStep == KeyStep({"tab"}) /\ hasAutocomplete /\ pc' # "rejected"

AtAb == buffer = <<"a", "b">> /\ cursor = 2

\* C9 as stated: at buffer "ab", cursor at its end, the first tab shows
\* "abc", the next "abd", the next nothing, the next "abc" again.
C9_TabsFromAbc ==
  [][(TabStep /\ AtAb) =>
       IF cur.name # "tab" THEN suffix' = Abc
       ELSE IF suffix = Abc THEN suffix' = Abd
       ELSE IF suffix = Abd THEN NoneActive(suffix', completionList')
       ELSE suffix' = Abc]_vars

\* C9 amended: tab never touches buffer or cursor; with a non-empty queue
\* it shows the head and keeps the tail, with an empty queue it drops queue
\* and suggestion, with no queue it asks the lookup, which at "ab" shows
\* "abc" and queues "abd".  Every render at "ab" has asked already, so the
\* first tab after an edit shows "abd", not "abc".
C9_TabCycle ==
  /\ [][TabStep =>
          /\ buffer' = buffer /\ cursor' = cursor
          /\ IF completionList.present /\ completionList.items # <<>>
             THEN /\ completionList' = List(Tail(completionList.items))
                  /\ suffix' = IF cursor = Len(buffer)
                               THEN Head(completionList.items) ELSE suffix
                  /\ lookups' = 0
             ELSE IF completionList.present
             THEN NoneActive(suffix', completionList') /\ lookups' = 0
             ELSE /\ lookups' = 1
                  /\ AtAb => suffix' = Abc /\ completionList' = List(<<Abd>>)]_vars
  /\ [][(KeyStep(SpecialNames \cup {"undefined"}) /\ cur'.name # "tab" /\ AtAb'
           /\ hasAutocomplete /\ renders' > 0 /\ pc' = "idle") =>
          (suffix' = Abc /\ completionList' = List(<<Abd>>))]_vars
  /\ [][(TabStep /\ AtAb /\ cur.name # "tab" /\ renders > 0) =>
          suffix' = Abd]_vars

\* A tab at "ab" has asked the lookup again and shows "abc".
C9_Witness ==
  /\ cur.name = "tab"
  /\ AtAb
  /\ lookups = 1
  /\ suffix = Abc
  /\ completionList = List(<<Abd>>)

\* C10: when a callback has thrown while a key event was handled, the
\* process has ended with a non-zero status.
C10_ThrowEndsProcess == pc = "rejected" => status = "exit1"

\* C11: key events that arrive while the PauseFlag is set, during a call of
\* onLine, are not dispatched before unpause() and none of them is dropped:
\* all are dispatched afterwards, in arrival order.
C11_QueuedWhilePaused ==
  /\ pc = "idle" => ~paused
  /\ (paused /\ pc = "onLine") => ~dropped

\* C12: a key event with text s that holds no line break, at cursor c, gives
\* buffer' = buffer[0:c] + s + buffer[c:] and cursor' = c + length(s), and
\* sets historyIndex to -1, for every buffer, cursor and s.
C12_InsertSplices ==
  [][(KeyStep({"undefined"}) /\ Len(lines') = 1) =>
       /\ buffer' = slice(buffer, 0, cursor) \o lines'[1]
                      \o slice(buffer, cursor, Len(buffer))
       /\ cursor' = cursor + Len(lines'[1])
       /\ historyIndex' = -1
       /\ history' = history]_vars

\* "b" has been typed in front of "a", the cursor standing between them.
C12_Witness ==
  /\ cur.name = "undefined"
  /\ lines = << <<"b">> >>
  /\ buffer = <<"b", "a">>
  /\ cursor = 1
  /\ history # <<>>
  /\ historyIndex = -1

\* A move the editor rejects: "left" or delete/backspace at cursor 0,
\* "right" at the end of the buffer with no suggestion.
RejectedMove ==
  /\ pc = "idle" /\ status = "running"
  /\ \/ cur'.name = "left" /\ cursor = 0
     \/ cur'.name = "right" /\ cursor = Len(buffer) /\ suffix = <<>>
     \/ cur'.name \in {"delete", "backspace"} /\ cursor = 0

\* C13: a rejected move changes none of buffer, cursor, history,
\* historyIndex, suggestion and queue, and renders nothing.
C13_RejectedMoveIsSilent ==
  [][RejectedMove =>
       /\ UNCHANGED <<buffer, cursor, history, historyIndex, suffix,
                      completionList>>
       /\ renders' = 0
       /\ lookups' = 0]_vars

\* "left" was rejected at the start of a non-empty buffer, and the queue of
\* the render before it is still held.
C13_Witness ==
  /\ cur.name = "left"
  /\ cursor = 0
  /\ buffer # <<>>
  /\ renders = 0
  /\ completionList.present

\* C14: a tab press, whichever branch of the cycle it takes, changes neither
\* buffer nor cursor; a suggestion gets into the buffer only by a "right"
\* pressed at the end of the buffer.
C14_OnlyRightCommits ==
  /\ [][KeyStep({"tab"}) => (buffer' = buffer /\ cursor' = cursor)]_vars
  /\ [][(suffix # <<>> /\ buffer' = buffer \o suffix) =>
          (pc = "idle" /\ cur'.name = "right" /\ cursor = Len(buffer))]_vars

\* A tab at "a" has asked the lookup and shows its candidate "c".
C14_Witness ==
  /\ cur.name = "tab"
  /\ buffer = <<"a">>
  /\ cursor = 1
  /\ lookups = 1
  /\ suffix = <<"c">>

\* C15: in every reachable state -1 <= historyIndex <= length(history) - 1,
\* and when "up" or "down" has just loaded an entry (moved historyIndex) the
\* buffer is history[historyIndex].
C15_HistoryIndexInRange ==
  /\ [](-1 <= historyIndex /\ historyIndex <= Len(history) - 1)
  /\ [][(KeyStep({"up", "down"}) /\ historyIndex' # historyIndex) =>
          /\ historyIndex' >= 0
          /\ buffer' = history'[historyIndex' + 1]]_vars

\* "down" has come back from the older of two entries to the newer one.
C15_Witness ==
  /\ cur.name = "down"
  /\ Len(history) = 2
  /\ history[1] # history[2]
  /\ historyIndex = 0
  /\ buffer = history[1]

\* C16: in every reachable state a non-empty suggestion is shown only with
\* the cursor at the end of the buffer.
C16_SuggestionAtEnd == suffix # <<>> => cursor = Len(buffer)

\* Typing "b" has shown the candidate "c" behind it.
C16_Witness ==
  /\ cur.name = "undefined"
  /\ buffer = <<"b">>
  /\ cursor = 1
  /\ suffix = <<"c">>

\* C17: a tab pressed with a present, non-empty queue removes exactly the
\* first candidate from the queue and shows that candidate as the
\* suggestion, so that none is consumed unshown; the cursor stays.
C17_TabShowsWhatItPops ==
  [][(TabStep /\ completionList.present /\ completionList.items # <<>>) =>
       /\ completionList' = List(Tail(completionList.items))
       /\ suffix' = Head(completionList.items)
       /\ cursor' = cursor]_vars

\* Every line break of the segments from..(to - 1) of segs is reached with
\* an empty buffer, given that the first of them is.
AllEmpty(segs, from, to) == \A n \in from..(to - 1) : segs[n] = <<>>

\* C18: a line break reached with an empty buffer submits nothing: onLine
\* is not called, history stays, the PauseFlag is not set and the next
\* segment goes into the still empty buffer.
C18_EmptyLineNotSubmitted ==
  /\ [][(KeyStep({"undefined"}) /\ Len(lines') > 1 /\ pc' # "rejected"
           /\ buffer = <<>> /\ AllEmpty(lines', 1, Len(lines'))) =>
          /\ pc' = "idle" /\ ~paused'
          /\ calls' = <<>>
          /\ history' = history
          /\ buffer' = lines'[Len(lines')]
          /\ cursor' = Len(buffer')]_vars
  /\ [][(ReturnStep /\ pc' # "rejected" /\ i + 1 < Len(lines)
           /\ AllEmpty(lines, i + 1, Len(lines))) =>
          /\ pc' = "idle" /\ ~paused'
          /\ calls' = calls
          /\ history' = history
          /\ buffer' = lines[Len(lines)]
          /\ cursor' = Len(buffer')]_vars

\* "\nb" was typed into an empty buffer after a submission: no call was
\* made for its line break and "b" is in the buffer.
C18_Witness ==
  /\ pc = "idle"
  /\ cur.name = "undefined"
  /\ lines = << <<>>, <<"b">> >>
  /\ calls = <<>>
  /\ buffer = <<"b">>
  /\ Len(history) = 1
  /\ ~paused

\* C19: onLine runs only while the PauseFlag is set; between pause() and
\* unpause() nothing is rendered, whoever calls refresh; when onLine
\* returns, unpause() and then a refresh follow; the PauseFlag is false
\* whenever a key event is handled.
C19_PausedAroundOnLine ==
  /\ [](pc = "onLine" => paused)
  /\ [](pc = "idle" => ~paused)
  /\ [](paused =>
          \A complete \in BOOLEAN, o \in Oracles :
            refresh(This, complete, o[1], o[2]) = This)
  /\ [][(paused /\ ~ReturnStep) => (paused' /\ renders' = 0)]_vars
  /\ [][ReturnStep =>
          /\ pc' # "onLine" => ~paused'
          /\ pc' # "rejected" => renders' >= 1]_vars

\* onLine("b") has returned: the editor is unpaused and has rendered the
\* empty buffer.
C19_Witness ==
  /\ pc = "idle"
  /\ lines = << <<>>, <<>> >>
  /\ calls = << <<"b">> >>
  /\ returned = 1
  /\ ~paused
  /\ renders >= 1
  /\ buffer = <<>>

\* The lookup's answer for the buffer of `out` is a list with candidates or
\* no list at all; the empty list is the answer that costs a second write.
hasItems(out, r) ==
  LET c == onAutocomplete(out.buffer, r)
  IN ~c.present \/ c.items # <<>>

\* C20: every refresh asks the lookup at most once: once when autoSuggest
\* is true, the buffer is not empty and the editor is not paused, never
\* when autoSuggest is false or the buffer is empty; refresh and the cycler
\* call each other at most once more (two writes at most), whatever the
\* lookup answers, the empty list included, so every key event is handled
\* to its end.
C20_OneLookupPerRefresh ==
  /\ [](\A complete \in BOOLEAN, r \in LookupResults :
          LET out == refresh(This, complete, r, "none")
          IN /\ out.lookups =
                  IF complete /\ buffer # <<>> /\ ~paused /\ hasAutocomplete
                  THEN 1 ELSE 0
             /\ out.renders = IF paused THEN 0
                              ELSE IF out.lookups = 1 /\ ~hasItems(out, r) THEN 2
                              ELSE 1
             /\ ~out.thrown)
  /\ [](\A complete \in BOOLEAN, o \in Oracles :
          LET out == refresh(This, complete, o[1], o[2])
          IN out.lookups <= 1 /\ out.renders <= 2)
  /\ [][((pc = "idle" /\ status = "running" /\ cur'.name # "tab") \/ ReturnStep) =>
          lookups' <= renders']_vars
  /\ [][KeyStep({"tab"}) => (lookups' <= 1 /\ renders' <= 1)]_vars

\* Typing "a" brought an empty list from the lookup: one lookup, and the
\* second write that drops the empty queue.
C20_Witness ==
  /\ cur.name = "undefined"
  /\ lines = << <<"a">> >>
  /\ buffer = <<"a">>
  /\ lookups = 1
  /\ renders = 2
  /\ NoneActive(suffix, completionList)

====
